---- MODULE Spec2Model ----
(***************************************************************************)
(* Model of the token codec of dmutils/email.py (generate_token,           *)
(* decode_token, parse_fernet_timestamp) and of the two policies built on  *)
(* it (decode_password_reset_token, decode_invitation_token).              *)
(*                                                                         *)
(* Time is counted in ticks of 1/TicksPerSecond of a second, so that the   *)
(* truncation int(time.time()) made by Fernet, and the sub-second          *)
(* resolution of passwordChangedAt, are both visible.                      *)
(*                                                                         *)
(* Fernet (cryptography.fernet) is modelled symbolically after its         *)
(* published format: version byte, 64-bit timestamp in whole seconds, IV,  *)
(* AES-CBC ciphertext and an HMAC over all of these.  A key is atomic, a   *)
(* ciphertext opens only under the key that made it and an HMAC is equal   *)
(* only to an HMAC of the same key over the same fields.                   *)
(***************************************************************************)
EXTENDS Integers, Sequences, FiniteSets, TLC

VARIABLES now, advances, issued, users, last, input, answer,
          request_files, saved, result, config, Meta, form

docv == <<request_files, saved, result>>

formv == <<config, Meta, form>>

vars == <<now, advances, issued, users, last, input, answer, request_files, saved, result,
         config, Meta, form>>

(***************************************************************************)
(* Bounds of the model.                                                    *)
(***************************************************************************)
TicksPerSecond == 3
MaxAdvances == 5

(***************************************************************************)
(* Program constants and the configuration of the test application.        *)
(***************************************************************************)
ONE_DAY_IN_SECONDS == 86400

TEST_SECRET_KEY == "TestKeyTestKeyTestKeyTestKeyTestKeyTestKeyX="
WrongKey == "WrongKeyWrongKeyWrongKeyWrongKeyWrongKeyXXX="
SecretKeys == {TEST_SECRET_KEY, WrongKey}

RESET_PASSWORD_SALT == <<"P", "a", "s", "s", "S", "a", "l", "t">>
INVITE_EMAIL_SALT == <<"S", "a", "l", "t">>
WrongSalt == <<"P", "a", "s", "s">>
Salts == {RESET_PASSWORD_SALT, INVITE_EMAIL_SALT, WrongSalt}

SECRET_KEY == TEST_SECRET_KEY
SHARED_EMAIL_KEY == TEST_SECRET_KEY

NUL == "\\0"

(***************************************************************************)
(* Payloads: mappings from string keys to string values.                   *)
(***************************************************************************)
NoPayload == [k \in {} |-> ""]
UserIds == {"u-42", "u-7"}
Payloads == {NoPayload, [email_address |-> "test-user@email.com"]}
              \cup {[user |-> u] : u \in UserIds}

KeyOrder == <<"email_address", "error", "supplier_code", "supplier_name", "user">>

(***************************************************************************)
(* json.dumps / json.loads on such a mapping.  The text is the sequence of *)
(* lexemes  { k : v , k : v }.                                             *)
(***************************************************************************)
RECURSIVE DumpItems(_, _)
DumpItems(data, i) ==
    IF i > Len(KeyOrder) THEN <<>>
    ELSE LET k == KeyOrder[i]
             rest == DumpItems(data, i + 1)
         IN  IF k \in DOMAIN data
             THEN <<k, ":", data[k]>> \o (IF rest = <<>> THEN <<>> ELSE <<",">> \o rest)
             ELSE rest

json_dumps(data) == <<"{">> \o DumpItems(data, 1) \o <<"}">>

(* json_loads reading each value one lexeme too early *)
json_loads_shifted(text) ==
    LET n == Len(text) \div 4
        keys == {text[4 * j - 2] : j \in 1..n}
    IN  [k \in keys |-> text[4 * (CHOOSE j \in 1..n : text[4 * j - 2] = k) - 1]]

json_loads(text) ==
    LET n == Len(text) \div 4
        keys == {text[4 * j - 2] : j \in 1..n}
    IN  [k \in keys |-> text[4 * (CHOOSE j \in 1..n : text[4 * j - 2] = k)]]

(***************************************************************************)
(* The clock.  time.time() is the tick count; int(time.time()) truncates   *)
(* it to whole seconds.                                                    *)
(***************************************************************************)
IntTime(t) == t \div TicksPerSecond

(***************************************************************************)
(* Fernet.  A token is the urlsafe base64 text of                          *)
(*   version (1 byte) | timestamp (8) | iv (16) | ciphertext | hmac (32).  *)
(* Its fields are the decoded bytes; b64 tells whether the text decodes at *)
(* all, and spell which of the texts that decode to these bytes it is (0:  *)
(* the one urlsafe_b64encode writes).  urlsafe_b64decode discards the bits *)
(* of the last character that do not fill a byte, so when the text ends in *)
(* padding that character has other spellings of the same bytes.           *)
(***************************************************************************)
HMAC(key, ver, ts, iv, ct) == [sk |-> key, ver |-> ver, ts |-> ts, iv |-> iv, ct |-> ct]

AESEncrypt(key, iv, plaintext) == [ek |-> key, iv |-> iv, pt |-> plaintext, flip |-> FALSE]

FernetEncrypt(key, plaintext, t) ==
    LET ts == IntTime(t)
        iv == "iv"
        ct == AESEncrypt(key, iv, plaintext)
    IN  [b64 |-> TRUE, spell |-> 0, ver |-> 128, ts |-> ts, iv |-> iv, ct |-> ct,
         hmac |-> HMAC(key, 128, ts, iv, ct)]

Invalid == [ok |-> FALSE, cleartext |-> <<>>]

(* no token at all *)
NoToken ==
    [b64 |-> FALSE, spell |-> 0, ver |-> 0, ts |-> 0, iv |-> "", ct |-> AESEncrypt("", "", <<>>),
     hmac |-> HMAC("", 0, 0, "", AESEncrypt("", "", <<>>))]

(* bytes of the text: the salt's characters and NUL are one byte each; of  *)
(* the lexemes of json.dumps the braces are one byte, ": " and ", " two,   *)
(* and a string its characters and two quotes                              *)
RECURSIVE JsonBytes(_)
JsonBytes(lexemes) ==
    IF lexemes = <<>> THEN 0
    ELSE LET x == Head(lexemes)
         IN  (IF x \in {"{", "}"} THEN 1 ELSE IF x \in {":", ","} THEN 2 ELSE Len(x) + 2)
                 + JsonBytes(Tail(lexemes))

ByteLen(plaintext) ==
    LET i == IF \E j \in 1..Len(plaintext) : plaintext[j] = NUL
             THEN CHOOSE j \in 1..Len(plaintext) :
                      plaintext[j] = NUL /\ \A k \in 1..(j - 1) : plaintext[k] # NUL
             ELSE Len(plaintext)
    IN  i + JsonBytes(SubSeq(plaintext, i + 1, Len(plaintext)))

(* AES-CBC with PKCS7 padding: whole blocks of 16 bytes, at least one byte of padding *)
CipherLen(plaintext) == 16 * (ByteLen(plaintext) \div 16 + 1)

TokenLen(token) == 1 + 8 + 16 + CipherLen(token.ct.pt) + 32

(* the "=" characters urlsafe_b64encode appends *)
PaddingChars(token) == (3 - (TokenLen(token) % 3)) % 3

(* the first check of Fernet.decrypt that rejects the token ("" if none does) *)
FernetRejection_hmac_first(key, token, ttl, t) ==
    LET current_time == IntTime(t)
    IN  IF ~token.b64 THEN "base64"
        ELSE IF token.ver # 128 THEN "version"
        ELSE IF token.hmac # HMAC(key, token.ver, token.ts, token.iv, token.ct) THEN "hmac"
        ELSE IF token.ts + ttl < current_time THEN "ttl"
        ELSE IF current_time + 60 < token.ts THEN "clock skew"
        ELSE IF token.ct.ek # key \/ token.ct.iv # token.iv \/ token.ct.flip THEN "padding"
        ELSE ""

FernetRejection(key, token, ttl, t) ==
    LET current_time == IntTime(t)
    IN  IF ~token.b64 THEN "base64"
        ELSE IF token.ver # 128 THEN "version"
        ELSE IF token.ts + ttl < current_time THEN "ttl"
        ELSE IF current_time + 60 < token.ts THEN "clock skew"
        ELSE IF token.hmac # HMAC(key, token.ver, token.ts, token.iv, token.ct) THEN "hmac"
        ELSE IF token.ct.ek # key \/ token.ct.iv # token.iv \/ token.ct.flip THEN "padding"
        ELSE ""

(* Fernet.decrypt without the verification of the signature *)
FernetDecrypt_unsigned(key, token, ttl, t) ==
    LET current_time == IntTime(t)
    IN  IF ~token.b64 THEN Invalid
        ELSE IF token.ver # 128 THEN Invalid
        ELSE IF token.ts + ttl < current_time THEN Invalid
        ELSE IF current_time + 60 < token.ts THEN Invalid
        ELSE IF token.ct.ek # key \/ token.ct.iv # token.iv \/ token.ct.flip THEN Invalid
        ELSE [ok |-> TRUE, cleartext |-> token.ct.pt]

(* Fernet.decrypt rejecting a token already at the end of its ttl *)
FernetDecrypt_ttl_inclusive(key, token, ttl, t) ==
    LET current_time == IntTime(t)
    IN  IF ~token.b64 THEN Invalid
        ELSE IF token.ver # 128 THEN Invalid
        ELSE IF token.ts + ttl <= current_time THEN Invalid
        ELSE IF current_time + 60 < token.ts THEN Invalid
        ELSE IF token.hmac # HMAC(key, token.ver, token.ts, token.iv, token.ct) THEN Invalid
        ELSE IF token.ct.ek # key \/ token.ct.iv # token.iv \/ token.ct.flip THEN Invalid
        ELSE [ok |-> TRUE, cleartext |-> token.ct.pt]

FernetDecrypt(key, token, ttl, t) ==
    LET current_time == IntTime(t)
    IN  IF ~token.b64 THEN Invalid
        ELSE IF token.ver # 128 THEN Invalid
        ELSE IF token.ts + ttl < current_time THEN Invalid
        ELSE IF current_time + 60 < token.ts THEN Invalid
        ELSE IF token.hmac # HMAC(key, token.ver, token.ts, token.iv, token.ct) THEN Invalid
        ELSE IF token.ct.ek # key \/ token.ct.iv # token.iv \/ token.ct.flip THEN Invalid
        ELSE [ok |-> TRUE, cleartext |-> token.ct.pt]

(***************************************************************************)
(* generate_token and decode_token.                                        *)
(***************************************************************************)
generate_token(data, secret_key, salt, t) ==
    FernetEncrypt(secret_key, salt \o <<NUL>> \o json_dumps(data), t)

Raise(e) == [exc |-> e, val |-> NoPayload]
Return(v) == [exc |-> "", val |-> v]

SplitAt(cleartext) ==
    IF \E i \in 1..Len(cleartext) : cleartext[i] = NUL
    THEN CHOOSE i \in 1..Len(cleartext) :
             cleartext[i] = NUL /\ \A j \in 1..(i - 1) : cleartext[j] # NUL
    ELSE 0

(* decode_token accepting a salt that the token's salt merely starts with *)
decode_token_startswith(token, secret_key, salt, max_age_in_seconds, t) ==
    LET r == FernetDecrypt(secret_key, token, max_age_in_seconds, t)
        i == SplitAt(r.cleartext)
    IN  IF ~r.ok THEN Raise("InvalidToken")
        ELSE IF i = 0 THEN Raise("ValueError")
        ELSE IF Len(salt) > i - 1 \/ SubSeq(r.cleartext, 1, Len(salt)) # salt
             THEN Raise("InvalidToken")
        ELSE Return(json_loads(SubSeq(r.cleartext, i + 1, Len(r.cleartext))))

(* decode_token taking the key from the application's configuration *)
decode_token_ambient_key(token, secret_key, salt, max_age_in_seconds, t) ==
    LET r == FernetDecrypt(SECRET_KEY, token, max_age_in_seconds, t)
        i == SplitAt(r.cleartext)
    IN  IF ~r.ok THEN Raise("InvalidToken")
        ELSE IF i = 0 THEN Raise("ValueError")
        ELSE IF SubSeq(r.cleartext, 1, i - 1) # salt THEN Raise("InvalidToken")
        ELSE Return(json_loads(SubSeq(r.cleartext, i + 1, Len(r.cleartext))))

(* decode_token without the comparison of the salt *)
decode_token_any_salt(token, secret_key, salt, max_age_in_seconds, t) ==
    LET r == FernetDecrypt(secret_key, token, max_age_in_seconds, t)
        i == SplitAt(r.cleartext)
    IN  IF ~r.ok THEN Raise("InvalidToken")
        ELSE IF i = 0 THEN Raise("ValueError")
        ELSE Return(json_loads(SubSeq(r.cleartext, i + 1, Len(r.cleartext))))

(* decode_token raising an exception of its own for a token past its age *)
decode_token_reports_expiry(token, secret_key, salt, max_age_in_seconds, t) ==
    LET r == FernetDecrypt(secret_key, token, max_age_in_seconds, t)
        i == SplitAt(r.cleartext)
    IN  IF FernetRejection(secret_key, token, max_age_in_seconds, t) = "ttl"
        THEN Raise("TokenExpired")
        ELSE IF ~r.ok THEN Raise("InvalidToken")
        ELSE IF i = 0 THEN Raise("ValueError")
        ELSE IF SubSeq(r.cleartext, 1, i - 1) # salt THEN Raise("InvalidToken")
        ELSE Return(json_loads(SubSeq(r.cleartext, i + 1, Len(r.cleartext))))

decode_token(token, secret_key, salt, max_age_in_seconds, t) ==
    LET r == FernetDecrypt(secret_key, token, max_age_in_seconds, t)
        i == SplitAt(r.cleartext)
    IN  IF ~r.ok THEN Raise("InvalidToken")
        ELSE IF i = 0 THEN Raise("ValueError")
        ELSE IF SubSeq(r.cleartext, 1, i - 1) # salt THEN Raise("InvalidToken")
        ELSE Return(json_loads(SubSeq(r.cleartext, i + 1, Len(r.cleartext))))

(***************************************************************************)
(* parse_fernet_timestamp: the embedded whole-second timestamp as a        *)
(* datetime (here: in ticks).  A string that is not base64 makes           *)
(* urlsafe_b64decode raise TypeError, which the function does not catch.   *)
(***************************************************************************)
(* parse_fernet_timestamp unpacking decoded[0:8]: the low byte is lost *)
parse_fernet_timestamp_slice(ciphertext) ==
    IF ~ciphertext.b64 THEN [exc |-> "TypeError", stamp |-> 0]
    ELSE [exc |-> "", stamp |-> (ciphertext.ts \div 256) * TicksPerSecond]

parse_fernet_timestamp(ciphertext) ==
    IF ~ciphertext.b64 THEN [exc |-> "TypeError", stamp |-> 0]
    ELSE [exc |-> "", stamp |-> ciphertext.ts * TicksPerSecond]

(***************************************************************************)
(* passwordChangedAt travels as text in DATETIME_FORMAT, seconds and       *)
(* fraction; datetime.strptime reads it back.                              *)
(***************************************************************************)
strftime(t) == [sec |-> t \div TicksPerSecond, frac |-> t % TicksPerSecond]
strptime(s) == s.sec * TicksPerSecond + s.frac

token_invalid == [error |-> "token_invalid"]
token_expired == [error |-> "token_expired"]

get_user(store, user_id) == store[user_id]

(* the calls a policy makes to its collaborators, in the order it makes them *)
CallDecodeToken(token) == [fn |-> "decode_token", token |-> token, user_id |-> ""]
CallParseTimestamp(token) == [fn |-> "parse_fernet_timestamp", token |-> token, user_id |-> ""]
CallGetUser(user_id) == [fn |-> "get_user", token |-> NoToken, user_id |-> user_id]
Called(r, calls) == [exc |-> r.exc, val |-> r.val, calls |-> calls]
DecodedThenParsed(token) == <<CallDecodeToken(token), CallParseTimestamp(token)>>
ParsedThenDecoded(token) == <<CallParseTimestamp(token), CallDecodeToken(token)>>

(* decode_password_reset_token without the comparison against passwordChangedAt *)
decode_password_reset_token_no_stale_check(token, store, t) ==
    LET decoded == decode_token(token, SECRET_KEY, RESET_PASSWORD_SALT, ONE_DAY_IN_SECONDS, t)
        timestamp == parse_fernet_timestamp(token)
    IN  IF decoded.exc = "InvalidToken"
        THEN Called(Return(token_invalid), <<CallDecodeToken(token)>>)
        ELSE IF decoded.exc # "" THEN Called(decoded, <<CallDecodeToken(token)>>)
        ELSE IF timestamp.exc # ""
        THEN Called(Raise(timestamp.exc), DecodedThenParsed(token))
        ELSE IF "user" \notin DOMAIN decoded.val
        THEN Called(Raise("KeyError"), DecodedThenParsed(token))
        ELSE LET user == get_user(store, decoded.val["user"])
                 looked_up == Append(DecodedThenParsed(token), CallGetUser(decoded.val["user"]))
             IN  IF ~user.found THEN Called(Raise("TypeError"), looked_up)
                 ELSE Called(Return(decoded.val), looked_up)

(* decode_password_reset_token decoding with the invitation's seven days *)
decode_password_reset_token_week(token, store, t) ==
    LET decoded == decode_token(token, SECRET_KEY, RESET_PASSWORD_SALT,
                                7 * ONE_DAY_IN_SECONDS, t)
        timestamp == parse_fernet_timestamp(token)
    IN  IF decoded.exc = "InvalidToken"
        THEN Called(Return(token_invalid), <<CallDecodeToken(token)>>)
        ELSE IF decoded.exc # "" THEN Called(decoded, <<CallDecodeToken(token)>>)
        ELSE IF timestamp.exc # ""
        THEN Called(Raise(timestamp.exc), DecodedThenParsed(token))
        ELSE IF "user" \notin DOMAIN decoded.val
        THEN Called(Raise("KeyError"), DecodedThenParsed(token))
        ELSE LET user == get_user(store, decoded.val["user"])
                 looked_up == Append(DecodedThenParsed(token), CallGetUser(decoded.val["user"]))
             IN  IF ~user.found THEN Called(Raise("TypeError"), looked_up)
                 ELSE IF timestamp.stamp < strptime(user.passwordChangedAt)
                      THEN Called(Return(token_invalid), looked_up)
                      ELSE Called(Return(decoded.val), looked_up)

(* decode_password_reset_token reading the timestamp before decoding *)
decode_password_reset_token_parse_first(token, store, t) ==
    LET decoded == decode_token(token, SECRET_KEY, RESET_PASSWORD_SALT, ONE_DAY_IN_SECONDS, t)
        timestamp == parse_fernet_timestamp(token)
    IN  IF timestamp.exc # "" THEN Called(Raise(timestamp.exc), <<CallParseTimestamp(token)>>)
        ELSE IF decoded.exc = "InvalidToken"
        THEN Called(Return(token_invalid), ParsedThenDecoded(token))
        ELSE IF decoded.exc # "" THEN Called(decoded, ParsedThenDecoded(token))
        ELSE IF "user" \notin DOMAIN decoded.val
        THEN Called(Raise("KeyError"), ParsedThenDecoded(token))
        ELSE LET user == get_user(store, decoded.val["user"])
                 looked_up == Append(ParsedThenDecoded(token), CallGetUser(decoded.val["user"]))
             IN  IF ~user.found THEN Called(Raise("TypeError"), looked_up)
                 ELSE IF timestamp.stamp < strptime(user.passwordChangedAt)
                      THEN Called(Return(token_invalid), looked_up)
                      ELSE Called(Return(decoded.val), looked_up)

(* decode_password_reset_token reading the timestamp of a token that failed to decode *)
decode_password_reset_token_unverified_timestamp(token, store, t) ==
    LET decoded == decode_token(token, SECRET_KEY, RESET_PASSWORD_SALT, ONE_DAY_IN_SECONDS, t)
        timestamp == parse_fernet_timestamp(token)
    IN  IF decoded.exc = "InvalidToken"
        THEN IF timestamp.exc # ""
             THEN Called(Raise(timestamp.exc), DecodedThenParsed(token))
             ELSE Called(Return(token_invalid), DecodedThenParsed(token))
        ELSE IF decoded.exc # "" THEN Called(decoded, <<CallDecodeToken(token)>>)
        ELSE IF timestamp.exc # ""
        THEN Called(Raise(timestamp.exc), DecodedThenParsed(token))
        ELSE IF "user" \notin DOMAIN decoded.val
        THEN Called(Raise("KeyError"), DecodedThenParsed(token))
        ELSE LET user == get_user(store, decoded.val["user"])
                 looked_up == Append(DecodedThenParsed(token), CallGetUser(decoded.val["user"]))
             IN  IF ~user.found THEN Called(Raise("TypeError"), looked_up)
                 ELSE IF timestamp.stamp < strptime(user.passwordChangedAt)
                      THEN Called(Return(token_invalid), looked_up)
                      ELSE Called(Return(decoded.val), looked_up)

(* decode_password_reset_token fetching the user a second time for the comparison *)
decode_password_reset_token_lookup_twice(token, store, t) ==
    LET decoded == decode_token(token, SECRET_KEY, RESET_PASSWORD_SALT, ONE_DAY_IN_SECONDS, t)
        timestamp == parse_fernet_timestamp(token)
    IN  IF decoded.exc = "InvalidToken"
        THEN Called(Return(token_invalid), <<CallDecodeToken(token)>>)
        ELSE IF decoded.exc # "" THEN Called(decoded, <<CallDecodeToken(token)>>)
        ELSE IF timestamp.exc # ""
        THEN Called(Raise(timestamp.exc), DecodedThenParsed(token))
        ELSE IF "user" \notin DOMAIN decoded.val
        THEN Called(Raise("KeyError"), DecodedThenParsed(token))
        ELSE LET user == get_user(store, decoded.val["user"])
                 looked_up == Append(DecodedThenParsed(token), CallGetUser(decoded.val["user"]))
                 again == Append(looked_up, CallGetUser(decoded.val["user"]))
             IN  IF ~user.found THEN Called(Raise("TypeError"), looked_up)
                 ELSE IF timestamp.stamp < strptime(user.passwordChangedAt)
                      THEN Called(Return(token_invalid), again)
                      ELSE Called(Return(decoded.val), again)

decode_password_reset_token(token, store, t) ==
    LET decoded == decode_token(token, SECRET_KEY, RESET_PASSWORD_SALT, ONE_DAY_IN_SECONDS, t)
        timestamp == parse_fernet_timestamp(token)
    IN  IF decoded.exc = "InvalidToken"
        THEN Called(Return(token_invalid), <<CallDecodeToken(token)>>)
        ELSE IF decoded.exc # "" THEN Called(decoded, <<CallDecodeToken(token)>>)
        ELSE IF timestamp.exc # ""
        THEN Called(Raise(timestamp.exc), DecodedThenParsed(token))
        ELSE IF "user" \notin DOMAIN decoded.val
        THEN Called(Raise("KeyError"), DecodedThenParsed(token))
        ELSE LET user == get_user(store, decoded.val["user"])
                 looked_up == Append(DecodedThenParsed(token), CallGetUser(decoded.val["user"]))
             IN  IF ~user.found THEN Called(Raise("TypeError"), looked_up)
                 ELSE IF timestamp.stamp < strptime(user.passwordChangedAt)
                      THEN Called(Return(token_invalid), looked_up)
                      ELSE Called(Return(decoded.val), looked_up)

(***************************************************************************)
(* decode_invitation_token: the payload, or None for every failure.  The   *)
(* except clause catches every exception of the decoding and the one       *)
(* raised for missing keys.                                                *)
(***************************************************************************)
ReturnNone == [exc |-> "", val |-> NoPayload, none |-> TRUE]
ReturnPayload(v) == [exc |-> "", val |-> v, none |-> FALSE]
RaiseOut(e) == [exc |-> e, val |-> NoPayload, none |-> FALSE]

required_fields(role) ==
    IF role = "supplier" THEN {"email_address", "supplier_code", "supplier_name"}
    ELSE {"email_address"}

(* decode_invitation_token raising for missing keys outside the try block *)
decode_invitation_token_raises(encoded_token, role, t) ==
    LET token == decode_token(encoded_token, SHARED_EMAIL_KEY, INVITE_EMAIL_SALT,
                              7 * ONE_DAY_IN_SECONDS, t)
    IN  IF token.exc # "" THEN ReturnNone
        ELSE IF \A field \in required_fields(role) : field \in DOMAIN token.val
             THEN ReturnPayload(token.val)
             ELSE RaiseOut("ValueError")

(* decode_invitation_token requiring only the e-mail address of every role *)
decode_invitation_token_any_role(encoded_token, role, t) ==
    LET token == decode_token(encoded_token, SHARED_EMAIL_KEY, INVITE_EMAIL_SALT,
                              7 * ONE_DAY_IN_SECONDS, t)
    IN  IF token.exc # "" THEN ReturnNone
        ELSE IF "email_address" \in DOMAIN token.val
             THEN ReturnPayload(token.val)
             ELSE ReturnNone

(* decode_invitation_token decoding with the one day of decode_token's default *)
decode_invitation_token_one_day(encoded_token, role, t) ==
    LET token == decode_token(encoded_token, SHARED_EMAIL_KEY, INVITE_EMAIL_SALT,
                              ONE_DAY_IN_SECONDS, t)
    IN  IF token.exc # "" THEN ReturnNone
        ELSE IF \A field \in required_fields(role) : field \in DOMAIN token.val
             THEN ReturnPayload(token.val)
             ELSE ReturnNone

decode_invitation_token(encoded_token, role, t) ==
    LET token == decode_token(encoded_token, SHARED_EMAIL_KEY, INVITE_EMAIL_SALT,
                              7 * ONE_DAY_IN_SECONDS, t)
    IN  IF token.exc # "" THEN ReturnNone
        ELSE IF \A field \in required_fields(role) : field \in DOMAIN token.val
             THEN ReturnPayload(token.val)
             ELSE ReturnNone

(***************************************************************************)
(* Strings of data_tools and forms: sequences of characters.               *)
(***************************************************************************)
Digits == <<"0", "1", "2", "3", "4", "5", "6", "7", "8", "9">>
IsDigit(c) == \E i \in 1..Len(Digits) : Digits[i] = c
int(c) == (CHOOSE i \in 1..Len(Digits) : Digits[i] = c) - 1

Letters ==
    {"a", "b", "c", "d", "e", "f", "g", "h", "i", "j", "k", "l", "m",
     "n", "o", "p", "q", "r", "s", "t", "u", "v", "w", "x", "y", "z"}

(* \s *)
Whitespace == {" ", "\t", "\n"}

(* [\d\w-] *)
IsDomainChar(c) == IsDigit(c) \/ c \in Letters \/ c = "_" \/ c = "-"

(* re.sub('(\s|-)', '', s) *)
RECURSIVE StripSpaceAndDash(_)
StripSpaceAndDash(s) ==
    IF s = <<>> THEN <<>>
    ELSE IF Head(s) \in Whitespace \/ Head(s) = "-" THEN StripSpaceAndDash(Tail(s))
    ELSE <<Head(s)>> \o StripSpaceAndDash(Tail(s))

Fail(exc, message) == [exc |-> exc, message |-> message, value |-> <<>>]
Value(v) == [exc |-> "", message |-> "", value |-> v]

(* sum(w * d for w, d in zip(weights, digits)): zip stops at the shorter *)
RECURSIVE WeightedSum(_, _, _)
WeightedSum(weights, digits, i) ==
    IF i > Len(weights) \/ i > Len(digits) THEN 0
    ELSE weights[i] * digits[i] + WeightedSum(weights, digits, i + 1)

(***************************************************************************)
(* normalise_acn and normalise_abn.  re.match anchors the pattern at the   *)
(* start of the string only; map(int, acn) converts every character of the *)
(* stripped string and raises a plain ValueError on one that is no digit.  *)
(***************************************************************************)
ACN_WEIGHTS == <<8, 7, 6, 5, 4, 3, 2, 1, 1>>
ABN_WEIGHTS == <<10, 1, 3, 5, 7, 9, 11, 13, 15, 17, 19>>

(* normalise_acn without the check digit *)
normalise_acn_unchecked(original_acn) ==
    LET acn == StripSpaceAndDash(original_acn)
    IN  IF ~(Len(acn) >= 9 /\ \A i \in 1..9 : IsDigit(acn[i]))
        THEN Fail("ValidationError", "Invalid ACN")
        ELSE IF \E i \in 1..Len(acn) : ~IsDigit(acn[i])
        THEN Fail("ValueError", "invalid literal for int()")
        ELSE Value(SubSeq(acn, 1, 3) \o <<" ">> \o SubSeq(acn, 4, 6) \o <<" ">> \o SubSeq(acn, 7, 9))

normalise_acn(original_acn) ==
    LET acn == StripSpaceAndDash(original_acn)
    IN  IF ~(Len(acn) >= 9 /\ \A i \in 1..9 : IsDigit(acn[i]))
        THEN Fail("ValidationError", "Invalid ACN")
        ELSE IF \E i \in 1..Len(acn) : ~IsDigit(acn[i])
        THEN Fail("ValueError", "invalid literal for int()")
        ELSE LET digits == [i \in 1..Len(acn) |-> int(acn[i])]
                 total == WeightedSum(ACN_WEIGHTS, digits, 1)
             IN  IF total % 10 # 0
                 THEN Fail("ValidationError", "Checksum failure for ACN")
                 ELSE Value(SubSeq(acn, 1, 3) \o <<" ">> \o SubSeq(acn, 4, 6)
                                \o <<" ">> \o SubSeq(acn, 7, 9))

normalise_abn(original_abn) ==
    LET abn == StripSpaceAndDash(original_abn)
    IN  IF ~(Len(abn) >= 11 /\ IsDigit(abn[1]) /\ abn[1] # "0"
                /\ \A i \in 2..11 : IsDigit(abn[i]))
        THEN Fail("ValidationError", "Invalid ABN")
        ELSE IF \E i \in 1..Len(abn) : ~IsDigit(abn[i])
        THEN Fail("ValueError", "invalid literal for int()")
        ELSE LET digits == [i \in 1..Len(abn) |-> IF i = 1 THEN int(abn[i]) - 1 ELSE int(abn[i])]
                 total == WeightedSum(ABN_WEIGHTS, digits, 1)
             IN  IF total % 89 # 0
                 THEN Fail("ValidationError", "Checksum failure for ABN")
                 ELSE Value(SubSeq(abn, 1, 2) \o <<" ">> \o SubSeq(abn, 3, 5) \o <<" ">>
                                \o SubSeq(abn, 6, 8) \o <<" ">> \o SubSeq(abn, 9, 11))

(***************************************************************************)
(* forms: email_validator and government_email_validator.                  *)
(***************************************************************************)
(* [\d\w-]+(\.[\d\w-]+)+ : two or more non-empty labels joined by dots *)
DomainMatches(d) ==
    /\ d # <<>>
    /\ \A i \in 1..Len(d) : IsDomainChar(d[i]) \/ d[i] = "."
    /\ d[1] # "." /\ d[Len(d)] # "."
    /\ \A i \in 1..(Len(d) - 1) : ~(d[i] = "." /\ d[i + 1] = ".")
    /\ \E i \in 1..Len(d) : d[i] = "."

(* ^[^@^\s]+@ ... : the whole of s *)
FullMatch(s) ==
    \E k \in 2..Len(s) :
        /\ s[k] = "@"
        /\ \A j \in 1..(k - 1) : s[j] \notin ({"@", "^"} \cup Whitespace)
        /\ DomainMatches(SubSeq(s, k + 1, Len(s)))

(* re.match with $ : at the end of the string, or before a newline that ends it *)
EmailRegexMatches(s) ==
    \/ FullMatch(s)
    \/ Len(s) > 0 /\ s[Len(s)] = "\n" /\ FullMatch(SubSeq(s, 1, Len(s) - 1))

_GOV_EMAIL_DOMAINS ==
    {<<"g", "o", "v", ".", "a", "u">>,
     <<"d", "i", "g", "i", "t", "a", "l", ".", "c", "a", "b", "i", "n", "e", "t", "-", "o", "f", "f", "i", "c", "e", ".", "g", "o", "v", ".", "u", "k">>}

(* email_address.split('@')[-1] *)
LastPart(s) ==
    IF \E i \in 1..Len(s) : s[i] = "@"
    THEN LET k == CHOOSE i \in 1..Len(s) : s[i] = "@" /\ \A j \in (i + 1)..Len(s) : s[j] # "@"
         IN  SubSeq(s, k + 1, Len(s))
    ELSE s

endswith(s, suffix) ==
    Len(s) >= Len(suffix) /\ SubSeq(s, Len(s) - Len(suffix) + 1, Len(s)) = suffix

is_government_email(email_address) ==
    LET domain == LastPart(email_address)
    IN  \E d \in _GOV_EMAIL_DOMAINS : domain = d \/ endswith(domain, <<".">> \o d)

Flagged(r, non_gov) ==
    [exc |-> r.exc, message |-> r.message, value |-> r.value, non_gov |-> non_gov]

(* government_email_validator raising the flag before the address is validated *)
government_email_validator_flag_first(data) ==
    IF ~is_government_email(data)
    THEN IF ~EmailRegexMatches(data)
         THEN Flagged(Fail("ValidationError", "You must provide a valid email address"), TRUE)
         ELSE Flagged(Fail("ValidationError", "needs to be a government email address"), TRUE)
    ELSE IF ~EmailRegexMatches(data)
    THEN Flagged(Fail("ValidationError", "You must provide a valid email address"), FALSE)
    ELSE Flagged(Value(<<>>), FALSE)

government_email_validator(data) ==
    IF ~EmailRegexMatches(data)
    THEN Flagged(Fail("ValidationError", "You must provide a valid email address"), FALSE)
    ELSE IF ~is_government_email(data)
    THEN Flagged(Fail("ValidationError", "needs to be a government email address"), TRUE)
    ELSE Flagged(Value(<<>>), FALSE)

(***************************************************************************)
(* documents: an attached file is its filename's extension and its size in *)
(* bytes.  The limit and the measuring of the size are those of            *)
(* dmutils/s3.py, which documents.py imports.                              *)
(***************************************************************************)
FILE_SIZE_LIMIT == 5400000

get_file_size_up_to_maximum(file_contents) ==
    IF file_contents.size < FILE_SIZE_LIMIT THEN file_contents.size ELSE FILE_SIZE_LIMIT

(* os.path.splitext(filename)[1].lower() *)
get_extension(file_object) ==
    CASE file_object.ext = ".PDF" -> ".pdf"
      [] file_object.ext = ".DOC" -> ".doc"
      [] OTHER -> file_object.ext

file_is_empty(file_contents) == file_contents.size = 0
file_is_not_empty(file_contents) == ~file_is_empty(file_contents)
file_is_less_than_5mb(file_contents) ==
    get_file_size_up_to_maximum(file_contents) < FILE_SIZE_LIMIT
file_is_open_document_format(file_object) ==
    get_extension(file_object) \in {".pdf", ".pda", ".odt", ".ods", ".odp"}

Restrict(f, keys) == [k \in keys |-> f[k]]

filter_empty_files(files) ==
    Restrict(files, {key \in DOMAIN files : file_is_not_empty(files[key])})

validate_documents(files) ==
    LET failing == {field \in DOMAIN files :
                        ~file_is_open_document_format(files[field])
                            \/ ~file_is_less_than_5mb(files[field])}
    IN  [field \in failing |->
            IF ~file_is_open_document_format(files[field])
            THEN "file_is_open_document_format"
            ELSE "file_is_less_than_5mb"]

ID_TO_FILE_NAME_SUFFIX ==
    [serviceDefinitionDocumentURL |-> "service-definition-document",
     termsAndConditionsDocumentURL |-> "terms-and-conditions",
     sfiaRateDocumentURL |-> "sfia-rate-card",
     pricingDocumentURL |-> "pricing-document"]

(* the name under which a document is stored, as far as it depends on the file *)
generate_file_name(field, file_contents) ==
    [name |-> ID_TO_FILE_NAME_SUFFIX[field], ext |-> get_extension(file_contents)]

(* the loop over files.items(): the fields in the order the dictionary     *)
(* yields them; uploader.save either stores the file or raises             *)
(* S3ResponseError (for the fields in refused), and a field without a      *)
(* file name suffix raises KeyError out of the loop                        *)
RECURSIVE UploadLoop(_, _, _, _, _, _, _)
UploadLoop(order, i, files, urls, errors, store, refused) ==
    IF i > Len(order)
    THEN [exc |-> "", none |-> FALSE, validated |-> DOMAIN files,
          files |-> urls, errors |-> errors, saved |-> store]
    ELSE LET field == order[i]
         IN  IF field \notin DOMAIN ID_TO_FILE_NAME_SUFFIX
             THEN [exc |-> "KeyError", none |-> FALSE, validated |-> DOMAIN files,
                   files |-> urls, errors |-> errors, saved |-> store]
             ELSE LET file_path == generate_file_name(field, files[field])
                  IN  IF field \in refused
                      THEN UploadLoop(order, i + 1, files, urls,
                                      [f \in DOMAIN errors \cup {field} |->
                                          IF f = field THEN "file_can_be_saved" ELSE errors[f]],
                                      Append(store, [field |-> field, path |-> file_path,
                                                     stored |-> FALSE]),
                                      refused)
                      ELSE UploadLoop(order, i + 1, files,
                                      [urls EXCEPT ![field] = [url |-> TRUE, name |-> file_path.name,
                                                               ext |-> file_path.ext]],
                                      errors,
                                      Append(store, [field |-> field, path |-> file_path,
                                                     stored |-> TRUE]),
                                      refused)

NoErrors == [f \in {} |-> ""]

(* the values of the dictionary files before the loop: the attached files, *)
(* which the loop replaces by the URLs of the stored documents             *)
Attached(files) == [f \in DOMAIN files |-> [url |-> FALSE, name |-> "", ext |-> files[f].ext]]

(* upload_service_documents storing the files that passed validation even  *)
(* when others failed it                                                    *)
upload_service_documents_saves_valid(store, files_of_request, upload_ids, order, refused) ==
    LET chosen == Restrict(files_of_request, upload_ids \cap DOMAIN files_of_request)
        files == filter_empty_files(chosen)
        errors == validate_documents(files)
        valid == Restrict(files, DOMAIN files \ DOMAIN errors)
        done == UploadLoop(SelectSeq(order, LAMBDA f : f \in DOMAIN valid), 1, valid,
                           Attached(valid), NoErrors, store, refused)
    IN  IF DOMAIN errors # {}
        THEN [exc |-> "", none |-> TRUE, validated |-> DOMAIN files,
              files |-> NoErrors, errors |-> errors, saved |-> done.saved]
        ELSE IF DOMAIN files = {}
        THEN [exc |-> "", none |-> FALSE, validated |-> DOMAIN files,
              files |-> NoErrors, errors |-> NoErrors, saved |-> store]
        ELSE done

upload_service_documents(store, files_of_request, upload_ids, order, refused) ==
    LET chosen == Restrict(files_of_request, upload_ids \cap DOMAIN files_of_request)
        files == filter_empty_files(chosen)
        errors == validate_documents(files)
    IN  IF DOMAIN errors # {}
        THEN [exc |-> "", none |-> TRUE, validated |-> DOMAIN files,
              files |-> NoErrors, errors |-> errors, saved |-> store]
        ELSE IF DOMAIN files = {}
        THEN [exc |-> "", none |-> FALSE, validated |-> DOMAIN files,
              files |-> NoErrors, errors |-> NoErrors, saved |-> store]
        ELSE UploadLoop(order, 1, files, Attached(files), NoErrors, store, refused)

(***************************************************************************)
(* Forms (dmutils/forms.py).  The attributes csrf, csrf_class, csrf_secret *)
(* and csrf_time_limit belong to the class DmForm.Meta; DmForm.__init__    *)
(* assigns to self.Meta, which is that class, so what one construction     *)
(* assigns is what the next construction finds.  A configuration is the    *)
(* mapping current_app.config; CSRF_FAKED may be absent from it.           *)
(***************************************************************************)
None == "None"

timedelta(seconds) == [seconds |-> seconds]

(* class DmForm.Meta as the module defines it *)
DmFormMeta ==
    [csrf |-> TRUE, csrf_class |-> "SessionCSRF", csrf_secret |-> None, csrf_time_limit |-> None]

(* FakeCsrf.valid_token *)
valid_token == "valid_fake_csrf_token"

(* current_app.config.get(key, default) *)
ConfigGet(c, key, default) == IF key \in DOMAIN c THEN c[key] ELSE default

(* the assignments of DmForm.__init__ to the class attributes *)
DmForm__init__(meta, c) ==
    IF c["CSRF_ENABLED"]
    THEN [meta EXCEPT !.csrf_secret = c["SECRET_KEY"],
                      !.csrf_time_limit = timedelta(c["CSRF_TIME_LIMIT"])]
    ELSE IF ConfigGet(c, "CSRF_FAKED", FALSE)
    THEN [meta EXCEPT !.csrf_class = "FakeCsrf"]
    ELSE [meta EXCEPT !.csrf = FALSE, !.csrf_class = None]

(* form.validate() of a form that has only the CSRF field: without CSRF    *)
(* there is nothing to validate, FakeCsrf accepts its one token and        *)
(* SessionCSRF the token of the session                                    *)
SessionToken == "session-token"

validate(meta, csrf_token) ==
    IF ~meta.csrf THEN TRUE
    ELSE IF meta.csrf_class = "FakeCsrf" THEN csrf_token = valid_token
    ELSE csrf_token = SessionToken

(***************************************************************************)
(* State.                                                                  *)
(*   now       the clock, in ticks                                         *)
(*   advances  how often the clock has been moved                          *)
(*   issued    the token made by generate_token that is being followed,    *)
(*             with what it was made from and when (empty before)          *)
(*   users     what the user lookup answers for each identifier            *)
(*   last      the last call made at the present clock reading             *)
(*   input     the string given to the validators of data_tools and forms  *)
(*   answer    what the last validator made of it                          *)
(*   request_files  the files attached to the request, by field             *)
(*   saved     the calls of uploader.save, in order, and whether each       *)
(*             stored its file                                              *)
(*   result    what the last upload_service_documents returned              *)
(*   config    current_app.config                                           *)
(*   Meta      the attributes of the class DmForm.Meta                      *)
(*   form      the last DmForm constructed: the configuration it was        *)
(*             constructed under, the CSRF settings it got, and what        *)
(*             is_csrf_token_valid answered if that constructed it          *)
(***************************************************************************)
NoCall ==
    [op |-> "none", token |-> NoToken, key |-> "", salt |-> <<>>, max_age |-> 0,
     exc |-> "", val |-> NoPayload, stamp |-> 0, none |-> FALSE, role |-> "",
     calls |-> <<>>]

NotFound == [found |-> FALSE, passwordChangedAt |-> strftime(0)]
User(t) == [found |-> TRUE, passwordChangedAt |-> strftime(t)]

Jumps == {1, ONE_DAY_IN_SECONDS * TicksPerSecond - 1}
MaxAges == {0, 1, ONE_DAY_IN_SECONDS}

(***************************************************************************)
(* What can happen to a token string on its way back: it loses a character *)
(* (no longer base64), or one of its fields is altered.                    *)
(***************************************************************************)
MangleKinds == {"truncate", "version", "timestamp", "timestamp_day", "iv", "ciphertext", "hmac"}

MangleToken(token, kind) ==
    CASE kind = "truncate" -> [token EXCEPT !.b64 = FALSE]
      [] kind = "version" -> [token EXCEPT !.ver = 129]
      [] kind = "timestamp" -> [token EXCEPT !.ts = @ + 1]
      [] kind = "timestamp_day" -> [token EXCEPT !.ts = @ + ONE_DAY_IN_SECONDS]
      [] kind = "iv" -> [token EXCEPT !.iv = "iv'"]
      [] kind = "ciphertext" -> [token EXCEPT !.ct.flip = TRUE]
      [] kind = "hmac" -> [token EXCEPT !.hmac.sk = "garbled"]

Tokens == {rec.token : rec \in issued}
Mangled == {MangleToken(token, kind) : token \in Tokens, kind \in MangleKinds}

(* a string, and how it came about: given, or an accepted ACN with the     *)
(* digit at pos (formerly was) replaced, or a string with characters added *)
NoInput == [text |-> <<>>, origin |-> "none", pos |-> 0, was |-> "", appended |-> 0]
Given(text) == [NoInput EXCEPT !.text = text, !.origin = "given"]

(* the configuration of the tests' application *)
Config ==
    [CSRF_ENABLED |-> FALSE, CSRF_FAKED |-> TRUE, CSRF_TIME_LIMIT |-> 30, SECRET_KEY |-> "secret"]

NoForm ==
    [op |-> "none", config |-> Config, meta |-> DmFormMeta, csrf_token |-> None, valid |-> FALSE]

NoFiles == [f \in {} |-> [ext |-> "", size |-> 0]]
NoResult ==
    [op |-> "none", exc |-> "", none |-> FALSE, validated |-> {}, files |-> NoErrors,
     errors |-> NoErrors, saved |-> <<>>]

NoAnswer == [op |-> "none", exc |-> "", message |-> "", value |-> <<>>, non_gov |-> FALSE]

Init ==
    /\ now = 0
    /\ advances = 0
    /\ issued = {}
    /\ users = [u \in UserIds |-> IF u = "u-42" THEN User(0) ELSE NotFound]
    /\ last = NoCall
    /\ input = NoInput
    /\ answer = NoAnswer
    /\ request_files = NoFiles
    /\ saved = <<>>
    /\ result = NoResult
    /\ config = Config
    /\ Meta = DmFormMeta
    /\ form = NoForm

Advance(d) ==
    /\ advances < MaxAdvances
    /\ now' = now + d
    /\ advances' = advances + 1
    /\ last' = NoCall
    /\ UNCHANGED <<docv, formv, input, answer, issued, users>>

GenerateToken(data, secret_key, salt) ==
    /\ issued = {}
    /\ issued' = {[token |-> generate_token(data, secret_key, salt, now),
                   data |-> data, key |-> secret_key, salt |-> salt, at |-> now]}
    /\ last' = NoCall
    /\ UNCHANGED <<docv, formv, input, answer, now, advances, users>>

ChangePassword(u) ==
    /\ users[u].found
    /\ strptime(users[u].passwordChangedAt) # now
    /\ users' = [users EXCEPT ![u] = User(now)]
    /\ last' = NoCall
    /\ UNCHANGED <<docv, formv, input, answer, now, advances, issued>>

(* a decode_token that uses the token up: once decoded it is forgotten *)
DecodeToken_consumes(token, secret_key, salt, max_age) ==
    /\ LET r == decode_token(token, secret_key, salt, max_age, now)
       IN  /\ last' = [NoCall EXCEPT !.op = "decode_token", !.token = token, !.key = secret_key,
                                     !.salt = salt, !.max_age = max_age,
                                     !.exc = r.exc, !.val = r.val]
           /\ issued' = IF r.exc = "" THEN {} ELSE issued
    /\ UNCHANGED <<docv, formv, input, answer, now, advances, users>>

DecodeToken(token, secret_key, salt, max_age) ==
    /\ LET r == decode_token(token, secret_key, salt, max_age, now)
       IN  last' = [NoCall EXCEPT !.op = "decode_token", !.token = token, !.key = secret_key,
                                  !.salt = salt, !.max_age = max_age,
                                  !.exc = r.exc, !.val = r.val]
    /\ UNCHANGED <<docv, formv, input, answer, now, advances, issued, users>>

ParseFernetTimestamp(token) ==
    /\ LET r == parse_fernet_timestamp(token)
       IN  last' = [NoCall EXCEPT !.op = "parse_fernet_timestamp", !.token = token,
                                  !.exc = r.exc, !.stamp = r.stamp]
    /\ UNCHANGED <<docv, formv, input, answer, now, advances, issued, users>>

DecodePasswordResetToken(token) ==
    /\ LET r == decode_password_reset_token(token, users, now)
       IN  last' = [NoCall EXCEPT !.op = "decode_password_reset_token", !.token = token,
                                  !.key = SECRET_KEY, !.salt = RESET_PASSWORD_SALT,
                                  !.max_age = ONE_DAY_IN_SECONDS,
                                  !.exc = r.exc, !.val = r.val, !.calls = r.calls]
    /\ UNCHANGED <<docv, formv, input, answer, now, advances, issued, users>>

(***************************************************************************)
(* The codec on its own: tokens are generated, time passes, tokens are     *)
(* decoded under any key, salt and maximum age, and their timestamp read.  *)
(***************************************************************************)
Next ==
    \/ \E d \in Jumps : Advance(d)
    \/ \E data \in Payloads, k \in SecretKeys, s \in Salts : GenerateToken(data, k, s)
    \/ \E token \in Tokens, k \in SecretKeys, s \in Salts, m \in MaxAges :
           DecodeToken(token, k, s, m)
    \/ \E token \in Tokens : ParseFernetTimestamp(token)

Spec == Init /\ [][Next]_vars

(***************************************************************************)
(* The password-reset policy: tokens of any provenance, intact or mangled, *)
(* are redeemed while time passes and the user changes the password.       *)
(***************************************************************************)
NextReset ==
    \/ \E d \in Jumps : Advance(d)
    \/ \E data \in Payloads, k \in SecretKeys, s \in Salts : GenerateToken(data, k, s)
    \/ \E u \in UserIds : ChangePassword(u)
    \/ \E token \in Tokens \cup Mangled : DecodePasswordResetToken(token)

SpecReset == Init /\ [][NextReset]_vars

(***************************************************************************)
(* The invitation policy: tokens with any set of the invitation's fields,  *)
(* of the right or another key and salt, intact or not, are redeemed for   *)
(* either role while time passes.                                          *)
(***************************************************************************)
InviteFields == {"email_address", "supplier_code", "supplier_name"}
InviteValues ==
    [email_address |-> "test-user@email.com", supplier_code |-> "1234",
     supplier_name |-> "A. Supplier"]
InvitePayloads ==
    {[k \in fields |-> InviteValues[k]] : fields \in SUBSET InviteFields}
        \cup {[user |-> "u-42"]}
InviteSalts == {INVITE_EMAIL_SALT, RESET_PASSWORD_SALT}
InviteJumps == {1, 7 * ONE_DAY_IN_SECONDS * TicksPerSecond - 1}
InviteMangles == {"truncate", "hmac"}
Roles == {"supplier", "buyer"}

DecodeInvitationToken(encoded_token, role) ==
    /\ LET r == decode_invitation_token(encoded_token, role, now)
       IN  last' = [NoCall EXCEPT !.op = "decode_invitation_token", !.token = encoded_token,
                                  !.key = SHARED_EMAIL_KEY, !.salt = INVITE_EMAIL_SALT,
                                  !.max_age = 7 * ONE_DAY_IN_SECONDS, !.role = role,
                                  !.exc = r.exc, !.val = r.val, !.none = r.none]
    /\ UNCHANGED <<docv, formv, input, answer, now, advances, issued, users>>

NextInvite ==
    \/ \E d \in InviteJumps : Advance(d)
    \/ \E data \in InvitePayloads, k \in SecretKeys, s \in InviteSalts : GenerateToken(data, k, s)
    \/ \E token \in Tokens \cup {MangleToken(tok, kind) : tok \in Tokens, kind \in InviteMangles},
          role \in Roles :
           DecodeInvitationToken(token, role)

SpecInvite == Init /\ [][NextInvite]_vars

(***************************************************************************)
(* The codec under attack: a token comes back with one character of its    *)
(* text changed, which alters one of its fields, makes the text            *)
(* undecodable, or respells the same bytes; it is decoded with the key and *)
(* salt it was made with, and intact tokens are decoded under any key,     *)
(* salt and maximum age.                                                   *)
(***************************************************************************)
Respellings(token) ==
    IF token.b64 /\ PaddingChars(token) > 0 THEN {[token EXCEPT !.spell = 1]} ELSE {}

OneByteChanges(token) ==
    {MangleToken(token, kind) : kind \in MangleKinds} \cup Respellings(token)

TamperPayloads == {NoPayload, [email_address |-> "test-user@email.com"]}
TamperSalts == {INVITE_EMAIL_SALT, RESET_PASSWORD_SALT}

NextTamper ==
    \/ \E d \in Jumps : Advance(d)
    \/ \E data \in TamperPayloads, s \in TamperSalts : GenerateToken(data, TEST_SECRET_KEY, s)
    \/ \E token \in Tokens, k \in SecretKeys, s \in TamperSalts, m \in MaxAges :
           DecodeToken(token, k, s, m)
    \/ \E rec \in issued : \E token \in OneByteChanges(rec.token), m \in MaxAges :
           DecodeToken(token, rec.key, rec.salt, m)

SpecTamper == Init /\ [][NextTamper]_vars

(***************************************************************************)
(* The validators: a string is given, characters are added to it or a      *)
(* digit of an accepted nine-digit ACN is replaced, and normalise_acn,     *)
(* normalise_abn and government_email_validator are applied to it.         *)
(***************************************************************************)
MaxAppended == 2

AcnCases ==
    {<<"0", "0", "4", "0", "8", "5", "6", "1", "6">>,
     <<" ", "0", "0", "4", "0", "8", "5", "6", "1", "6", " ">>,
     <<"0", "0", "4", "-", "0", "8", "5", "-", "6", "1", "6">>,
     <<"0", "0", "0", "0", "0", "0", "0", "0", "0">>,
     <<"2", "1", "0", "7", "1", "0", "5", "4", "4">>,
     <<"5", "9", "9", "6", "9", "9", "5", "7", "3">>,
     <<"3", "9", "8", "9", "6", "1", "9", "8", "7">>,
     <<"9", "2", "5", "5", "5", "1", "6", "4", "0">>,
     <<"8", "1", "9", "7", "5", "2", "6", "5", "7">>,
     <<"7", "0", "4", "0", "8", "5", "6", "1", "6">>,
     <<"n", "o">>,
     <<>>,
     <<"1", "2", "3", "4">>,
     <<"1", "2", "3", "4", "5", "6", "7">>,
     <<"1", "?">>}

AbnCases ==
    {<<"2", "8", "7", "9", "9", "0", "4", "6", "2", "0", "3">>,
     <<"5", "1", "8", "2", "4", "7", "5", "3", "5", "5", "6">>,
     <<"2", "8", "-", "7", "9", "9", "0", "4", "6", "-", "2", "0", "3">>,
     <<"0", "8", " ", "7", "9", "9", " ", "0", "4", "6", " ", "2", "0", "3">>,
     <<"1", "2", "3", "4", "5", "6", "7", "8", "9", "0">>,
     <<"9", "8", "7", "9", "9", "0", "4", "6", "2", "0", "3">>}

EmailCases ==
    {<<"a", "s", "d", "f", "@", "e", "x", "a", "m", "p", "l", "e", ".", "g", "o", "v", ".", "a", "u">>,
     <<"@", "@", "@">>,
     <<"v", "a", "l", "i", "d", "@", "e", "x", "a", "m", "p", "l", "e", ".", "c", "o", "m">>,
     <<"f", "o", "o", "@", "e", "x", "a", "m", "p", "l", "e", ".", "c", "o", "m">>,
     <<"a", "@", "g", "o", "v", ".", "a", "u">>,
     <<"a", "@", "x", "g", "o", "v", ".", "a", "u">>,
     <<"a", "@", "g", "o", "v", ".", "a", "u", ".", "c", "o", "m">>,
     <<"a", "@", "b", "@", "g", "o", "v", ".", "a", "u">>,
     <<"a", " ", "b", "@", "g", "o", "v", ".", "a", "u">>,
     <<"a", "@", "g", "o", "v">>,
     <<"a", "^", "b", "@", "g", "o", "v", ".", "a", "u">>,
     <<"a", "@", "x", ".", "d", "i", "g", "i", "t", "a", "l", ".", "c", "a", "b", "i", "n", "e", "t", "-", "o", "f", "f", "i", "c", "e", ".", "g", "o", "v", ".", "u", "k">>,
     <<"g", "o", "v", ".", "a", "u">>}

GivenInputs == {Given(text) : text \in AcnCases \cup AbnCases \cup EmailCases}

AppendedChars == {"0", "x", " ", "\n"}

InitText ==
    /\ now = 0
    /\ advances = 0
    /\ issued = {}
    /\ users = [u \in UserIds |-> IF u = "u-42" THEN User(0) ELSE NotFound]
    /\ last = NoCall
    /\ input \in GivenInputs
    /\ answer = NoAnswer
    /\ request_files = NoFiles
    /\ saved = <<>>
    /\ result = NoResult
    /\ config = Config
    /\ Meta = DmFormMeta
    /\ form = NoForm

AppendChar(c) ==
    /\ input.origin \in {"given", "appended"}
    /\ input.appended < MaxAppended
    /\ input' = [input EXCEPT !.text = @ \o <<c>>, !.origin = "appended", !.appended = @ + 1]
    /\ answer' = NoAnswer
    /\ UNCHANGED <<docv, formv, now, advances, issued, users, last>>

ReplaceDigit(i, d) ==
    /\ input.origin = "given"
    /\ Len(input.text) = 9 /\ \A j \in 1..9 : IsDigit(input.text[j])
    /\ answer.op = "normalise_acn" /\ answer.exc = ""
    /\ input.text[i] # d
    /\ input' = [input EXCEPT !.text[i] = d, !.origin = "replaced", !.pos = i,
                              !.was = input.text[i]]
    /\ answer' = NoAnswer
    /\ UNCHANGED <<docv, formv, now, advances, issued, users, last>>

NormaliseAcn ==
    /\ LET r == normalise_acn(input.text)
       IN  answer' = [NoAnswer EXCEPT !.op = "normalise_acn", !.exc = r.exc,
                                      !.message = r.message, !.value = r.value]
    /\ UNCHANGED <<docv, formv, now, advances, issued, users, last, input>>

NormaliseAbn ==
    /\ LET r == normalise_abn(input.text)
       IN  answer' = [NoAnswer EXCEPT !.op = "normalise_abn", !.exc = r.exc,
                                      !.message = r.message, !.value = r.value]
    /\ UNCHANGED <<docv, formv, now, advances, issued, users, last, input>>

GovernmentEmailValidator ==
    /\ LET r == government_email_validator(input.text)
       IN  answer' = [NoAnswer EXCEPT !.op = "government_email_validator", !.exc = r.exc,
                                      !.message = r.message, !.non_gov = r.non_gov]
    /\ UNCHANGED <<docv, formv, now, advances, issued, users, last, input>>

NextText ==
    \/ \E c \in AppendedChars : AppendChar(c)
    \/ \E i \in 1..9, k \in 1..Len(Digits) : ReplaceDigit(i, Digits[k])
    \/ NormaliseAcn
    \/ NormaliseAbn
    \/ GovernmentEmailValidator

SpecText == InitText /\ [][NextText]_vars

(***************************************************************************)
(* The upload of a section's documents: files are attached to the request  *)
(* under the section's upload fields and under another field, and          *)
(* upload_service_documents is called; the dictionary yields the fields in *)
(* any order and the store may refuse any of the files.                    *)
(***************************************************************************)
SectionUploadIds == {"serviceDefinitionDocumentURL", "pricingDocumentURL"}
RequestFields == SectionUploadIds \cup {"logo"}
Extensions == {".pdf", ".PDF", ".doc"}
Sizes == {0, 1, FILE_SIZE_LIMIT - 1, FILE_SIZE_LIMIT}
Contents == [ext : Extensions, size : Sizes]

Orders(S) == {o \in [1..Cardinality(S) -> S] : \A f \in S : \E i \in DOMAIN o : o[i] = f}

AttachFile(field, file_contents) ==
    /\ result.op = "none"
    /\ field \notin DOMAIN request_files
    /\ request_files' = [f \in DOMAIN request_files \cup {field} |->
                             IF f = field THEN file_contents ELSE request_files[f]]
    /\ UNCHANGED <<formv, saved, result, now, advances, issued, users, last, input, answer>>

UploadServiceDocuments(order, refused) ==
    /\ result.op = "none"
    /\ LET r == upload_service_documents(saved, request_files, SectionUploadIds, order, refused)
       IN  /\ saved' = r.saved
           /\ result' = [r EXCEPT !.saved = <<>>] @@ [op |-> "upload_service_documents"]
    /\ UNCHANGED <<formv, request_files, now, advances, issued, users, last, input, answer>>

NextDocs ==
    \/ \E field \in RequestFields, file_contents \in Contents : AttachFile(field, file_contents)
    \/ \E order \in Orders(DOMAIN filter_empty_files(
                          Restrict(request_files, SectionUploadIds \cap DOMAIN request_files))),
          refused \in SUBSET SectionUploadIds :
           UploadServiceDocuments(order, refused)

SpecDocs == Init /\ [][NextDocs]_vars

(***************************************************************************)
(* Forms under changing configurations: the application's configuration   *)
(* is replaced, forms are constructed, and is_csrf_token_valid is asked    *)
(* about the token of a request.                                           *)
(***************************************************************************)
AppSecrets == {"secret", "other-secret"}
TimeLimits == {30, 3600}
Configs ==
    [CSRF_ENABLED : BOOLEAN, CSRF_TIME_LIMIT : TimeLimits, SECRET_KEY : AppSecrets]
        \cup [CSRF_ENABLED : BOOLEAN, CSRF_FAKED : BOOLEAN,
              CSRF_TIME_LIMIT : TimeLimits, SECRET_KEY : AppSecrets]
RequestTokens == {None, valid_token, SessionToken, "bad"}

Configure(c) ==
    /\ c # config
    /\ config' = c
    /\ UNCHANGED <<docv, Meta, form, now, advances, issued, users, last, input, answer>>

ConstructDmForm ==
    /\ Meta' = DmForm__init__(Meta, config)
    /\ form' = [op |-> "DmForm", config |-> config, meta |-> Meta',
                csrf_token |-> None, valid |-> FALSE]
    /\ UNCHANGED <<docv, config, now, advances, issued, users, last, input, answer>>

(* csrf_token = None stands for a request without the field csrf_token *)
IsCsrfTokenValid(csrf_token) ==
    /\ IF ~config["CSRF_ENABLED"] /\ ~ConfigGet(config, "CSRF_FAKED", FALSE)
       THEN /\ form' = [op |-> "is_csrf_token_valid", config |-> config, meta |-> Meta,
                        csrf_token |-> csrf_token, valid |-> TRUE]
            /\ Meta' = Meta
       ELSE IF csrf_token = None
       THEN /\ form' = [op |-> "is_csrf_token_valid", config |-> config, meta |-> Meta,
                        csrf_token |-> csrf_token, valid |-> FALSE]
            /\ Meta' = Meta
       ELSE /\ Meta' = DmForm__init__(Meta, config)
            /\ form' = [op |-> "is_csrf_token_valid", config |-> config, meta |-> Meta',
                        csrf_token |-> csrf_token, valid |-> validate(Meta', csrf_token)]
    /\ UNCHANGED <<docv, config, now, advances, issued, users, last, input, answer>>

NextForms ==
    \/ \E c \in Configs : Configure(c)
    \/ ConstructDmForm
    \/ \E csrf_token \in RequestTokens : IsCsrfTokenValid(csrf_token)

SpecForms == Init /\ [][NextForms]_vars

(***************************************************************************)
(* Both policies under one key: tokens are issued for password reset or    *)
(* for an invitation, with payloads that would satisfy either policy, and  *)
(* each is presented to both decode_password_reset_token and               *)
(* decode_invitation_token.                                                *)
(***************************************************************************)
ReplayPayloads ==
    {[user |-> "u-42"],
     [email_address |-> "test-user@email.com"],
     [email_address |-> "test-user@email.com", user |-> "u-42"],
     [email_address |-> "test-user@email.com", supplier_code |-> "1234",
      supplier_name |-> "A. Supplier", user |-> "u-42"]}

NextReplay ==
    \/ \E d \in Jumps : Advance(d)
    \/ \E data \in ReplayPayloads, s \in {RESET_PASSWORD_SALT, INVITE_EMAIL_SALT} :
           GenerateToken(data, TEST_SECRET_KEY, s)
    \/ \E token \in Tokens : DecodePasswordResetToken(token)
    \/ \E token \in Tokens, role \in Roles : DecodeInvitationToken(token, role)

SpecReplay == Init /\ [][NextReplay]_vars

(***************************************************************************)
(* Vocabulary of the claims.                                               *)
(***************************************************************************)
Decoded(rec) == last.op = "decode_token" /\ last.token = rec.token
OwnKeyAndSalt(rec) == last.key = rec.key /\ last.salt = rec.salt
Elapsed(rec) == now - rec.at
Succeeded(rec) == last.exc = "" /\ last.val = rec.data

(* C1: a token decoded with the key and salt it was generated with, no     *)
(* more than max_age seconds after its generation, yields exactly the      *)
(* payload it was generated from.                                          *)
C1_RoundTrip ==
    \A rec \in issued :
        (Decoded(rec) /\ OwnKeyAndSalt(rec) /\ Elapsed(rec) <= last.max_age * TicksPerSecond)
            => Succeeded(rec)

C1_Witness ==
    \E rec \in issued :
        /\ Decoded(rec) /\ OwnKeyAndSalt(rec)
        /\ Elapsed(rec) = last.max_age * TicksPerSecond
        /\ last.max_age > 0
        /\ rec.data # NoPayload
        /\ Succeeded(rec)

(* C2: a token decoded with the key it was generated with and any other    *)
(* salt fails, and fails with InvalidToken, the error of a wrong key.      *)
C2_SaltIsolation ==
    \A rec \in issued :
        (Decoded(rec) /\ last.key = rec.key /\ last.salt # rec.salt)
            => last.exc = "InvalidToken"

C2_Witness ==
    \E rec \in issued :
        /\ Decoded(rec) /\ last.key = rec.key
        /\ rec.salt = RESET_PASSWORD_SALT /\ last.salt = WrongSalt
        /\ Elapsed(rec) <= last.max_age * TicksPerSecond
        /\ last.exc = "InvalidToken"

(* C3: a token decoded with any key other than the one it was generated    *)
(* with fails with InvalidToken, whatever the salt and the maximum age.    *)
C3_KeyIsolation ==
    \A rec \in issued :
        (Decoded(rec) /\ last.key # rec.key) => last.exc = "InvalidToken"

C3_Witness ==
    \E rec \in issued :
        /\ Decoded(rec) /\ last.key # rec.key /\ last.salt = rec.salt
        /\ Elapsed(rec) <= last.max_age * TicksPerSecond
        /\ last.exc = "InvalidToken"

(* C4 as stated: an authentic token is accepted at clock time exactly      *)
(* issued_at + max_age and rejected at every clock time strictly greater.  *)
C4_ExpiryBoundaryAsStated ==
    \A rec \in issued :
        (Decoded(rec) /\ OwnKeyAndSalt(rec))
            => /\ Elapsed(rec) = last.max_age * TicksPerSecond => Succeeded(rec)
               /\ Elapsed(rec) > last.max_age * TicksPerSecond => last.exc # ""

(* C4 as amended: an authentic token is accepted at clock time exactly     *)
(* issued_at + max_age, and it is rejected (with InvalidToken) exactly     *)
(* when the whole-second reading of the clock is greater than the whole    *)
(* second of its issuance plus max_age.                                    *)
C4_ExpiryBoundary ==
    \A rec \in issued :
        (Decoded(rec) /\ OwnKeyAndSalt(rec))
            => /\ Elapsed(rec) = last.max_age * TicksPerSecond => Succeeded(rec)
               /\ IntTime(now) > IntTime(rec.at) + last.max_age => last.exc = "InvalidToken"
               /\ IntTime(now) <= IntTime(rec.at) + last.max_age => Succeeded(rec)

C4_Witness ==
    \E rec \in issued :
        /\ Decoded(rec) /\ OwnKeyAndSalt(rec)
        /\ last.max_age = ONE_DAY_IN_SECONDS
        /\ IntTime(now) = IntTime(rec.at) + last.max_age + 1
        /\ last.exc = "InvalidToken"

(* C5 as stated: the timestamp read from a token is the clock time of its  *)
(* generation.                                                             *)
C5_TimestampAsStated ==
    \A rec \in issued :
        (last.op = "parse_fernet_timestamp" /\ last.token = rec.token)
            => (last.exc = "" /\ last.stamp = rec.at)

(* C5 as amended: the timestamp read from a token is the clock time of its *)
(* generation truncated to whole seconds.                                  *)
C5_Timestamp ==
    \A rec \in issued :
        (last.op = "parse_fernet_timestamp" /\ last.token = rec.token)
            => (last.exc = "" /\ last.stamp = IntTime(rec.at) * TicksPerSecond)

C5_Witness ==
    \E rec \in issued :
        /\ last.op = "parse_fernet_timestamp" /\ last.token = rec.token
        /\ rec.at > ONE_DAY_IN_SECONDS
        /\ rec.at % TicksPerSecond # 0
        /\ now > rec.at
        /\ last.stamp = IntTime(rec.at) * TicksPerSecond

(***************************************************************************)
(* Vocabulary of the password-reset claims.                                *)
(***************************************************************************)
Redeemed(token) == last.op = "decode_password_reset_token" /\ last.token = token

(* an authentic password-reset token for a user the lookup finds *)
ResetToken(rec) ==
    /\ rec.key = SECRET_KEY
    /\ rec.salt = RESET_PASSWORD_SALT
    /\ "user" \in DOMAIN rec.data
    /\ users[rec.data["user"]].found

PasswordChangedAt(rec) == strptime(users[rec.data["user"]].passwordChangedAt)

Outcome(v) == last.exc = "" /\ last.val = v

(* C6: an unexpired password-reset token of a user whose password was      *)
(* changed after the token was issued is answered with token_invalid.      *)
C6_PasswordChangeInvalidates ==
    \A rec \in issued :
        (/\ Redeemed(rec.token) /\ ResetToken(rec)
         /\ Elapsed(rec) <= ONE_DAY_IN_SECONDS * TicksPerSecond
         /\ PasswordChangedAt(rec) > rec.at)
            => Outcome(token_invalid)

C6_Witness ==
    \E rec \in issued :
        /\ Redeemed(rec.token) /\ ResetToken(rec)
        /\ Elapsed(rec) <= ONE_DAY_IN_SECONDS * TicksPerSecond
        /\ PasswordChangedAt(rec) > rec.at
        /\ now > PasswordChangedAt(rec)
        /\ Outcome(token_invalid)

(* C7: an unexpired password-reset token of a user whose password was last *)
(* changed no later than the token was issued is answered with the issued  *)
(* payload.                                                                *)
C7_ResetSuccess ==
    \A rec \in issued :
        (/\ Redeemed(rec.token) /\ ResetToken(rec)
         /\ Elapsed(rec) <= ONE_DAY_IN_SECONDS * TicksPerSecond
         /\ PasswordChangedAt(rec) <= rec.at)
            => Outcome(rec.data)

(* C8 as stated: a password-reset token redeemed more than 24 hours after  *)
(* it was issued is answered with token_expired.                           *)
C8_ExpiredOutcomeAsStated ==
    \A rec \in issued :
        (/\ Redeemed(rec.token) /\ ResetToken(rec)
         /\ Elapsed(rec) > ONE_DAY_IN_SECONDS * TicksPerSecond)
            => Outcome(token_expired)

(* C8 as amended: a password-reset token redeemed when the whole-second    *)
(* reading of the clock is more than 24 hours past the whole second of its *)
(* issuance is answered with token_invalid.                                *)
C8_ExpiredOutcome ==
    \A rec \in issued :
        (/\ Redeemed(rec.token) /\ ResetToken(rec)
         /\ IntTime(now) > IntTime(rec.at) + ONE_DAY_IN_SECONDS)
            => Outcome(token_invalid)

C8_Witness ==
    \E rec \in issued :
        /\ Redeemed(rec.token) /\ ResetToken(rec)
        /\ IntTime(now) > IntTime(rec.at) + ONE_DAY_IN_SECONDS
        /\ PasswordChangedAt(rec) <= rec.at
        /\ Outcome(token_invalid)

(* C9: a token that is malformed, altered, or made with another key or     *)
(* another salt is answered with token_invalid.                            *)
C9_InvalidOutcome ==
    \A rec \in issued :
        (\/ \E kind \in MangleKinds : Redeemed(MangleToken(rec.token, kind))
         \/ Redeemed(rec.token) /\ (rec.key # SECRET_KEY \/ rec.salt # RESET_PASSWORD_SALT))
            => Outcome(token_invalid)

C9_Witness ==
    \E rec \in issued :
        /\ ResetToken(rec)
        /\ Elapsed(rec) <= ONE_DAY_IN_SECONDS * TicksPerSecond
        /\ PasswordChangedAt(rec) <= IntTime(rec.at) * TicksPerSecond
        /\ Redeemed(MangleToken(rec.token, "truncate"))
        /\ Outcome(token_invalid)

(* C10: redeeming a password-reset token never raises: every call returns  *)
(* a payload or an outcome.                                                *)
C10_RedeemIsTotal ==
    last.op = "decode_password_reset_token" => last.exc = ""

(***************************************************************************)
(* Vocabulary of the invitation claims.                                    *)
(***************************************************************************)
Invited(token) == last.op = "decode_invitation_token" /\ last.token = token

(* made with the invitation's key and salt *)
InvitationToken(rec) == rec.key = SHARED_EMAIL_KEY /\ rec.salt = INVITE_EMAIL_SALT

SEVEN_DAYS == 7 * ONE_DAY_IN_SECONDS

InviteExpired(rec) == IntTime(now) > IntTime(rec.at) + SEVEN_DAYS

HasRequired(rec) == \A field \in required_fields(last.role) : field \in DOMAIN rec.data

IsNone == last.exc = "" /\ last.none /\ last.val = NoPayload
IsPayload(v) == last.exc = "" /\ ~last.none /\ last.val = v

(* C11: decode_invitation_token never raises, and it answers None, the     *)
(* same for every cause, when the token is malformed or altered, was made  *)
(* with another key or salt, has expired, or lacks a field the role needs. *)
C11_InvitationFailureCollapse ==
    /\ last.op = "decode_invitation_token" => last.exc = ""
    /\ \A rec \in issued :
        /\ (\E kind \in MangleKinds : Invited(MangleToken(rec.token, kind))) => IsNone
        /\ (Invited(rec.token) /\ (~InvitationToken(rec) \/ InviteExpired(rec)
                                     \/ ~HasRequired(rec))) => IsNone

C11_Witness ==
    \E rec \in issued :
        /\ Invited(rec.token) /\ InvitationToken(rec) /\ ~InviteExpired(rec)
        /\ last.role = "supplier"
        /\ DOMAIN rec.data = {"email_address", "supplier_name"}
        /\ IsNone

(* C12: an authentic, unexpired invitation token yields its payload for    *)
(* role supplier exactly when the payload has email_address, supplier_code *)
(* and supplier_name, and for any other role exactly when it has           *)
(* email_address; otherwise it yields None.                                *)
C12_FieldCompleteness ==
    \A rec \in issued :
        (Invited(rec.token) /\ InvitationToken(rec)
            /\ Elapsed(rec) <= SEVEN_DAYS * TicksPerSecond)
            => /\ last.role = "supplier" =>
                    (IsPayload(rec.data) <=> InviteFields \subseteq DOMAIN rec.data)
               /\ last.role # "supplier" =>
                    (IsPayload(rec.data) <=> "email_address" \in DOMAIN rec.data)
               /\ IsPayload(rec.data) \/ IsNone

C12_Witness ==
    \E rec \in issued :
        /\ Invited(rec.token) /\ InvitationToken(rec)
        /\ Elapsed(rec) <= SEVEN_DAYS * TicksPerSecond /\ Elapsed(rec) > 0
        /\ last.role = "buyer"
        /\ DOMAIN rec.data = {"email_address", "supplier_name"}
        /\ IsPayload(rec.data)

(* C13 as stated: an authentic invitation token with the fields of the     *)
(* role is accepted at every age up to and including 7 days and yields     *)
(* None at every greater age.                                              *)
C13_InvitationWindowAsStated ==
    \A rec \in issued :
        (Invited(rec.token) /\ InvitationToken(rec) /\ HasRequired(rec))
            => /\ Elapsed(rec) <= SEVEN_DAYS * TicksPerSecond => IsPayload(rec.data)
               /\ Elapsed(rec) > SEVEN_DAYS * TicksPerSecond => IsNone

(* C13 as amended: such a token is accepted at every age up to and         *)
(* including 7 days, and it yields None exactly when the whole-second      *)
(* reading of the clock is more than 7 days past the whole second of its   *)
(* issuance.                                                               *)
C13_InvitationWindow ==
    \A rec \in issued :
        (Invited(rec.token) /\ InvitationToken(rec) /\ HasRequired(rec))
            => /\ Elapsed(rec) <= SEVEN_DAYS * TicksPerSecond => IsPayload(rec.data)
               /\ InviteExpired(rec) => IsNone
               /\ ~InviteExpired(rec) => IsPayload(rec.data)

C13_Witness ==
    \E rec \in issued :
        /\ Invited(rec.token) /\ InvitationToken(rec) /\ HasRequired(rec)
        /\ Elapsed(rec) = SEVEN_DAYS * TicksPerSecond
        /\ rec.at % TicksPerSecond # 0
        /\ last.role = "supplier"
        /\ IsPayload(rec.data)

(***************************************************************************)
(* Vocabulary of the tampering claims.                                     *)
(***************************************************************************)
(* the last call decoded this text with the key and salt the followed      *)
(* token was made with, inside the window                                  *)
DecodedInWindow(rec, token) ==
    /\ last.op = "decode_token" /\ last.token = token
    /\ last.key = rec.key /\ last.salt = rec.salt
    /\ Elapsed(rec) <= last.max_age * TicksPerSecond

(* C14 as stated: after any change of a single character of a generated    *)
(* token, decode_token with the original key and salt and an unexpired     *)
(* window fails.                                                           *)
C14_TamperSensitivityAsStated ==
    \A rec \in issued : \A token \in OneByteChanges(rec.token) :
        DecodedInWindow(rec, token) => last.exc # ""

(* C14 as amended: a change of a single character that alters the bytes of *)
(* the token or makes the text undecodable makes decode_token fail with    *)
(* InvalidToken; a change that respells the same bytes decodes to the      *)
(* original payload; no change succeeds with a different payload.          *)
C14_TamperSensitivity ==
    \A rec \in issued :
        /\ \A kind \in MangleKinds :
               DecodedInWindow(rec, MangleToken(rec.token, kind))
                   => last.exc = "InvalidToken" /\ last.val = NoPayload
        /\ \A token \in Respellings(rec.token) :
               DecodedInWindow(rec, token) => last.exc = "" /\ last.val = rec.data
        /\ \A token \in OneByteChanges(rec.token) :
               (DecodedInWindow(rec, token) /\ last.exc = "") => last.val = rec.data

C14_Witness ==
    \E rec \in issued : \E token \in Respellings(rec.token) :
        /\ DecodedInWindow(rec, token)
        /\ last.exc = "" /\ last.val = rec.data /\ rec.data # NoPayload

(***************************************************************************)
(* Vocabulary of the repeatability claim.                                  *)
(***************************************************************************)
DecodeStep == last'.op = "decode_token"

SameArguments ==
    /\ last.op = "decode_token" /\ last'.token = last.token /\ last'.key = last.key
    /\ last'.salt = last.salt /\ last'.max_age = last.max_age

DecodedOnce == \E rec \in issued : Decoded(rec) /\ Succeeded(rec)

StillDecodes ==
    \A rec \in issued :
        (Decoded(rec) /\ OwnKeyAndSalt(rec) /\ Elapsed(rec) <= last.max_age * TicksPerSecond)
            => Succeeded(rec)

DecodedText(token) == last.op = "decode_token" /\ last.token = token

(* the text does not decode, or is not a version-0x80 token *)
Malformed(token) == ~token.b64 \/ token.ver # 128

(* the bytes are not the ones signed, or key or salt are not the token's *)
Unauthentic(rec, token) ==
    \/ \E kind \in MangleKinds \ {"truncate", "version"} : token = MangleToken(rec.token, kind)
    \/ last.key # rec.key
    \/ last.salt # rec.salt

(* the timestamp in the token is more than max_age before the clock's second *)
PastAge(token) == token.ts + last.max_age < IntTime(now)

ExpiredAuthentic(rec, token) ==
    /\ token \in {rec.token} \cup Respellings(rec.token)
    /\ OwnKeyAndSalt(rec)
    /\ PastAge(token)

(* C16 as stated: a failing decode_token lets the caller tell an expired   *)
(* authentic token from a malformed one and from one that fails            *)
(* authentication: what it raises for the first differs from what it       *)
(* raises, at the same moment, for the token cut short and for the token   *)
(* under another key.                                                      *)
C16_FailureKindsAsStated ==
    \A rec \in issued :
        (DecodedText(rec.token) /\ ExpiredAuthentic(rec, rec.token))
            => /\ last.exc # ""
               /\ last.exc # decode_token(MangleToken(rec.token, "truncate"), rec.key, rec.salt,
                                          last.max_age, now).exc
               /\ last.exc # decode_token(rec.token, WrongKey, rec.salt, last.max_age, now).exc

(* C16 as amended: decode_token fails in one way only: for a malformed     *)
(* token, for one that fails authentication (wrong key, wrong salt,        *)
(* tampering) and for an expired authentic one it raises the same          *)
(* InvalidToken, which carries nothing that tells them apart.              *)
C16_FailureKinds ==
    \A rec \in issued : \A token \in {rec.token} \cup OneByteChanges(rec.token) :
        DecodedText(token)
            => /\ (Malformed(token) \/ Unauthentic(rec, token) \/ ExpiredAuthentic(rec, token))
                      => last.exc = "InvalidToken"
               /\ last.exc # "" => (last.exc = "InvalidToken" /\ last.val = NoPayload)

C16_Witness ==
    \E rec \in issued :
        /\ DecodedText(rec.token) /\ ExpiredAuthentic(rec, rec.token)
        /\ last.max_age = ONE_DAY_IN_SECONDS
        /\ last.exc = "InvalidToken"
        /\ decode_token(MangleToken(rec.token, "truncate"), rec.key, rec.salt,
                        last.max_age, now).exc = "InvalidToken"
        /\ decode_token(rec.token, WrongKey, rec.salt, last.max_age, now).exc = "InvalidToken"

(* the check of Fernet.decrypt that rejected the last call's token *)
RejectedBy == FernetRejection(last.key, last.token, last.max_age, now)

(* the token's signature is the one the supplied key gives its bytes *)
Signed(token) == token.hmac = HMAC(last.key, token.ver, token.ts, token.iv, token.ct)

Stripped == SelectSeq(input.text, LAMBDA c : c \notin Whitespace /\ c # "-")

AllDigits(s) == \A i \in 1..Len(s) : IsDigit(s[i])

(* exactly nine decimal digits *)
AcnForm(s) == Len(s) = 9 /\ AllDigits(s)

(* exactly eleven decimal digits, the first not zero *)
AbnForm(s) == Len(s) = 11 /\ AllDigits(s) /\ s[1] # "0"

(* C17: normalise_acn raises ValidationError 'Invalid ACN' for every input *)
(* whose form without whitespace and dashes is not exactly nine digits,    *)
(* and normalise_abn raises ValidationError 'Invalid ABN' for every input  *)
(* whose stripped form is not exactly eleven digits with a first digit     *)
(* other than zero; neither returns a value for such input.                *)
C17_FormatRejection ==
    /\ (answer.op = "normalise_acn" /\ ~AcnForm(Stripped))
           => (answer.exc = "ValidationError" /\ answer.message = "Invalid ACN"
                  /\ answer.value = <<>>)
    /\ (answer.op = "normalise_abn" /\ ~AbnForm(Stripped))
           => (answer.exc = "ValidationError" /\ answer.message = "Invalid ABN"
                  /\ answer.value = <<>>)

(* an accepted nine-digit ACN in which one digit was replaced by another   *)
(* has been given to normalise_acn                                         *)
ReplacedAndChecked == answer.op = "normalise_acn" /\ input.origin = "replaced"

ChecksumFailure == answer.exc = "ValidationError" /\ answer.message = "Checksum failure for ACN"

(* the change the replacement makes to the weighted sum, modulo 10 *)
WeightedChange ==
    (ACN_WEIGHTS[input.pos] * (10 + int(input.text[input.pos]) - int(input.was))) % 10

(* C18 as stated: replacing any one digit of an accepted nine-digit ACN by *)
(* a different digit gives an input that normalise_acn rejects with        *)
(* 'Checksum failure'.                                                     *)
C18_SingleDigitErrorsAsStated == ReplacedAndChecked => ChecksumFailure

(* C18 as amended: the replacement is rejected with 'Checksum failure'     *)
(* exactly when the weight of the position times the difference of the     *)
(* digits is not a multiple of 10; otherwise (a difference of 5 under an   *)
(* even weight, an even difference under weight 5) it is accepted and      *)
(* normalised.                                                             *)
C18_SingleDigitErrors ==
    ReplacedAndChecked
        => /\ ChecksumFailure <=> WeightedChange # 0
           /\ WeightedChange = 0
                  => (answer.exc = ""
                         /\ answer.value = SubSeq(input.text, 1, 3) \o <<" ">>
                                \o SubSeq(input.text, 4, 6) \o <<" ">> \o SubSeq(input.text, 7, 9))

C18_Witness ==
    /\ ReplacedAndChecked /\ ChecksumFailure
    /\ input.pos = 4 /\ WeightedChange = 5

(* the part of the address after its last "@" *)
DomainOf(s) == SubSeq(s, Len(s) - Len(LastPart(s)) + 1, Len(s))

(* a whitelisted government domain, or a sub-domain of one *)
GovernmentDomain(dom) ==
    \E d \in _GOV_EMAIL_DOMAINS :
        \/ dom = d
        \/ \E n \in 2..Len(dom) : dom[n] = "." /\ SubSeq(dom, n + 1, Len(dom)) = d

SyntacticallyValid == EmailRegexMatches(input.text)

(* C19: government_email_validator leaves the flag non_gov True exactly    *)
(* when the address is syntactically valid and its domain is neither a     *)
(* whitelisted government domain nor a sub-domain of one; for an invalid   *)
(* address it fails with the 'valid email' message and the flag False, and *)
(* for a valid government address it passes with the flag False.           *)
C19_NonGovFlag ==
    answer.op = "government_email_validator"
        => /\ answer.non_gov <=> (SyntacticallyValid /\ ~GovernmentDomain(DomainOf(input.text)))
           /\ ~SyntacticallyValid
                  => (answer.exc = "ValidationError" /\ ~answer.non_gov
                         /\ answer.message = "You must provide a valid email address")
           /\ (SyntacticallyValid /\ GovernmentDomain(DomainOf(input.text)))
                  => (answer.exc = "" /\ ~answer.non_gov)
           /\ answer.non_gov
                  => (answer.exc = "ValidationError"
                         /\ answer.message = "needs to be a government email address")

C19_Witness ==
    /\ answer.op = "government_email_validator"
    /\ input.text = <<"a", "@", "x", "g", "o", "v", ".", "a", "u">>
    /\ answer.non_gov

(***************************************************************************)
(* Vocabulary of the claims about what decode_password_reset_token calls.  *)
(***************************************************************************)
RedeemCall == last.op = "decode_password_reset_token"

CallsOf(fn) == {i \in 1..Len(last.calls) : last.calls[i].fn = fn}

(* the token passes Fernet's checks under the reset key now and carries    *)
(* the reset salt                                                          *)
PassesAuthentication(token) ==
    /\ token.b64 /\ token.ver = 128
    /\ token.hmac = HMAC(SECRET_KEY, token.ver, token.ts, token.iv, token.ct)
    /\ token.ct.ek = SECRET_KEY
    /\ IntTime(now) <= token.ts + ONE_DAY_IN_SECONDS
    /\ \E i \in 1..Len(token.ct.pt) :
           token.ct.pt[i] = NUL /\ SubSeq(token.ct.pt, 1, i - 1) = RESET_PASSWORD_SALT

(* the timestamp was compared with passwordChangedAt *)
Compared ==
    /\ CallsOf("get_user") # {}
    /\ \A i \in CallsOf("get_user") : users[last.calls[i].user_id].found

(* C21: in decode_password_reset_token the timestamp of the token is read  *)
(* only after decode_token has succeeded on the same token, and it is      *)
(* compared with passwordChangedAt only when it was read from a token that *)
(* passed authentication.                                                  *)
C21_NoUnverifiedTimestamp ==
    RedeemCall
        => /\ \A i \in CallsOf("parse_fernet_timestamp") :
                  /\ \E j \in CallsOf("decode_token") :
                         j < i /\ last.calls[j].token = last.calls[i].token
                  /\ last.calls[i].token = last.token
                  /\ PassesAuthentication(last.token)
           /\ Compared => (CallsOf("parse_fernet_timestamp") # {}
                              /\ PassesAuthentication(last.token))

C21_Witness ==
    \E rec \in issued :
        /\ Redeemed(MangleToken(rec.token, "timestamp")) /\ ResetToken(rec)
        /\ CallsOf("decode_token") # {}
        /\ CallsOf("parse_fernet_timestamp") = {}
        /\ Outcome(token_invalid)

(* the user lookup of the last call: made at most once, after the token    *)
(* was decoded, for the user the followed token names, and only for a      *)
(* token that passes authentication                                        *)
LookupInOrder ==
    RedeemCall
        => /\ Cardinality(CallsOf("get_user")) <= 1
           /\ \A i \in CallsOf("get_user") :
                  /\ \E j \in CallsOf("decode_token") : j < i /\ last.calls[j].token = last.token
                  /\ PassesAuthentication(last.token)
                  /\ \E rec \in issued :
                         /\ last.token = rec.token /\ "user" \in DOMAIN rec.data
                         /\ last.calls[i].user_id = rec.data["user"]
           /\ ~PassesAuthentication(last.token) => CallsOf("get_user") = {}

RedeemStep == last'.op = "decode_password_reset_token"

(* C22: one call of decode_password_reset_token calls get_user at most     *)
(* once, only after the token has decoded, with the identifier of the      *)
(* decoded payload; for a malformed, unauthentic or expired token it does  *)
(* not call get_user; and the call changes no stored state: the users, the *)
(* token and the clock are as before.                                      *)
C22_LookupOrderAndFrame ==
    /\ []LookupInOrder
    /\ [][RedeemStep => /\ users' = users /\ issued' = issued
                        /\ now' = now /\ advances' = advances]_vars

C22_Witness ==
    \E rec \in issued :
        /\ Redeemed(rec.token) /\ ResetToken(rec)
        /\ Cardinality(CallsOf("get_user")) = 1
        /\ \A i \in CallsOf("get_user") : i = 3 /\ last.calls[i].user_id = rec.data["user"]
        /\ Outcome(rec.data)

(* the two policies are configured with one key and different salts *)
SharedKeyDistinctSalts ==
    SECRET_KEY = SHARED_EMAIL_KEY /\ RESET_PASSWORD_SALT # INVITE_EMAIL_SALT

(* C23: with one key and different salts for the two policies, a token     *)
(* issued for password reset yields None from decode_invitation_token for  *)
(* every role, and a token issued for an invitation yields token_invalid   *)
(* from decode_password_reset_token, whatever fields its payload has.      *)
C23_NoCrossPurposeReplay ==
    SharedKeyDistinctSalts
        => \A rec \in issued :
               /\ (rec.key = SECRET_KEY /\ rec.salt = RESET_PASSWORD_SALT /\ Invited(rec.token))
                      => IsNone
               /\ (rec.key = SHARED_EMAIL_KEY /\ rec.salt = INVITE_EMAIL_SALT
                      /\ Redeemed(rec.token))
                      => (Outcome(token_invalid) /\ CallsOf("get_user") = {})

C23_Witness ==
    \E rec \in issued :
        /\ SharedKeyDistinctSalts
        /\ rec.key = SHARED_EMAIL_KEY /\ rec.salt = INVITE_EMAIL_SALT
        /\ DOMAIN rec.data = {"email_address", "user"}
        /\ users[rec.data["user"]].found
        /\ Elapsed(rec) = 0
        /\ Redeemed(rec.token)
        /\ Outcome(token_invalid)

(***************************************************************************)
(* Vocabulary of the upload.                                               *)
(***************************************************************************)
Uploaded == result.op = "upload_service_documents"

(* the files of the section's upload fields that have content *)
NonEmptySectionFiles ==
    {f \in SectionUploadIds \cap DOMAIN request_files : request_files[f].size > 0}

WrongFormat(f) == request_files[f].ext \notin {".pdf", ".PDF"}
TooLarge(f) == request_files[f].size >= FILE_SIZE_LIMIT
FailingFiles == {f \in NonEmptySectionFiles : WrongFormat(f) \/ TooLarge(f)}

SaveCalledFor(f) == \E i \in DOMAIN saved : saved[i].field = f

(* C24: upload_service_documents validates before it uploads: when a       *)
(* non-empty file of the section has the wrong format or is too large, the *)
(* function returns (None, errors) with an error for exactly the failing   *)
(* files and uploader.save is called for no file, the valid ones included; *)
(* an empty file is dropped before validation: it gets no error, is not    *)
(* among the validated files and uploader.save is never called for it.     *)
C24_ValidateBeforeUpload ==
    Uploaded =>
        /\ FailingFiles # {} =>
              /\ result.exc = ""
              /\ result.none
              /\ DOMAIN result.errors = FailingFiles
              /\ \A f \in FailingFiles :
                    result.errors[f] = (IF WrongFormat(f) THEN "file_is_open_document_format"
                                                         ELSE "file_is_less_than_5mb")
              /\ saved = <<>>
        /\ \A f \in DOMAIN request_files :
              request_files[f].size = 0 =>
                  /\ f \notin result.validated
                  /\ f \notin DOMAIN result.errors
                  /\ ~SaveCalledFor(f)
        /\ result.validated = NonEmptySectionFiles

(* a valid file, a failing file and an empty file of the section in one    *)
(* request, refused together                                               *)
C24_Witness ==
    /\ Uploaded
    /\ result.none
    /\ \E f \in NonEmptySectionFiles : f \notin FailingFiles
    /\ \E f \in DOMAIN request_files : request_files[f].size = 0
    /\ saved = <<>>

(***************************************************************************)
(* Vocabulary of the forms.                                                *)
(***************************************************************************)
(* the last step constructed a DmForm, directly or in is_csrf_token_valid *)
FormConstructed ==
    \/ form.op = "DmForm"
    \/ /\ form.op = "is_csrf_token_valid"
       /\ form.csrf_token # None
       /\ form.config["CSRF_ENABLED"] \/ ConfigGet(form.config, "CSRF_FAKED", FALSE)

(* C25: the CSRF mode of a DmForm depends only on the configuration in     *)
(* force when it is constructed: whatever forms were constructed before    *)
(* and under whatever configurations, a DmForm constructed while           *)
(* CSRF_ENABLED is true has CSRF checking on and uses SessionCSRF with the *)
(* configured secret and time limit.                                       *)
C25_ModeFollowsConfiguration ==
    (FormConstructed /\ form.config["CSRF_ENABLED"]) =>
        /\ form.meta.csrf
        /\ form.meta.csrf_class = "SessionCSRF"
        /\ form.meta.csrf_secret = form.config["SECRET_KEY"]
        /\ form.meta.csrf_time_limit = timedelta(form.config["CSRF_TIME_LIMIT"])

====
